---- MODULE Spec2Model ----
(***************************************************************************)
(* Model of the scrape dispatch and result-cache engine of the scraper     *)
(* service.                                                                *)
(*                                                                         *)
(*   SpecDispatch  scraper::scrape (src/scraper.rs): URL parsing, the      *)
(*                 classification chain behind the check cache, the        *)
(*                 selection of a backend and its extraction.              *)
(*   Spec          web::scrape_inner (src/web.rs): requests going through  *)
(*                 the moka result cache built in State::new (src/main.rs) *)
(*                 with its time-to-idle and time-to-live.                 *)
(*                                                                         *)
(* URLs are modelled structurally: a scheme, a host as its sequence of     *)
(* labels (empty when the URL has no host) and a path as its sequence of   *)
(* segments.  The regular expressions of the backends are evaluated on     *)
(* that structure.                                                         *)
(***************************************************************************)
EXTENDS Integers, Sequences, FiniteSets, TLC

VARIABLES
    \* ---- scraper::scrape ----
    dUrl,        \* the URL handed to scrape
    head,        \* what the network answers to a HEAD request for dUrl
    dns,         \* what the resolver answers for the host of dUrl
    checkCache,  \* the "check_cache" tree: backend -> cached classification
    dPc,         \* position of the scrape call
    dIdx,        \* position in the chain of awaits
    dAns,        \* the answer each awaited classification gave in this call
    dPolled,     \* the backends whose classify function ran in this call
    dSel,        \* the backend whose extraction was called
    dResult,     \* what scrape returned
    dCalls,      \* number of finished calls
    dPrev,       \* matching set and selection of the previous call
    config,      \* the Configuration the service runs with
    dData,       \* the ScrapeResultData of an Ok result
    dChain,      \* the cause chain of an Err result, outermost first
    dResp,       \* what the handler answered for the call
    \* ---- web::scrape_inner over the result cache ----
    rc,          \* the result cache: key -> entry
    rPc,         \* position of each request
    rKey,        \* the raw URL string of each request
    rOut,        \* what try_get_with returned to each request
    rVia,        \* how the request got its outcome
    rLead,       \* the request whose computation a waiter joined
    \* ---- startup and the operations that read the configuration ----
    sPc,         \* position of the process: booting or serving
    sOp,         \* the last operation run while serving, with its result
    \* ---- twitter::twitter_scrape over the request cache ----
    tPc,         \* position of the extraction
    tPost,       \* the id of the post being extracted
    tGt,         \* the guest token the activation yielded
    tNet,        \* the legs this extraction sent to the network, in order
    tCache,      \* reqwest_cache: the keys holding an answer
    tServed,     \* the requests the network answered within the cache lifetime
    tOut,        \* what the extraction returned
    tRuns,       \* number of finished extractions
    \* ---- tumblr::process_post_photo and upsize ----
    uPc,         \* position in process_post_photo
    uPhotos,     \* post["photos"] as an array, if it is one
    uIdx,        \* the photo the loop is at
    uTier,       \* the size the loop of upsize is at
    uUrls,       \* the urls vector of upsize
    uProbed,     \* the probes of the running or last upsize, with the answers
    uRet,        \* what the last upsize returned
    uImages,     \* the (image, preview) pairs pushed so far
    uOut,        \* what the extraction returned
    \* ---- the hi-res steps of deviantart::deviantart_scrape ----
    aPc,         \* position in deviantart_scrape
    aPage,       \* what extract_data took from the page
    aImages,     \* the images vector
    aTodo,       \* what is left of the clone try_intermediary_hires walks
    aLog,        \* the images vector as each finished step left it
    aNet,        \* the answers of the network to the requests of the steps
    aOut,        \* what the extraction returned
    \* ---- the camo rewrite of the images of a result ----
    iPc,         \* position: the input is chosen, the images are built
    iMedia,      \* the media the post carries
    iOut         \* the result of each of the two backends

dvars == <<dUrl, head, dns, checkCache, dPc, dIdx, dAns, dPolled, dSel,
           dResult, dCalls, dPrev, config, dData, dChain, dResp>>
rvars == <<rc, rPc, rKey, rOut, rVia, rLead>>
svars == <<sPc, sOp>>
tvars == <<tPc, tPost, tGt, tNet, tCache, tServed, tOut, tRuns>>
uvars == <<uPc, uPhotos, uIdx, uTier, uUrls, uProbed, uRet, uImages, uOut>>
avars == <<aPc, aPage, aImages, aTodo, aLog, aNet, aOut>>
ivars == <<iPc, iMedia, iOut>>
\* the variables of the extraction routines
xvars == <<tvars, uvars, avars, ivars>>
vars == <<dUrl, head, dns, checkCache, dPc, dIdx, dAns, dPolled, dSel,
          dResult, dCalls, dPrev, config, dData, dChain, dResp,
          rc, rPc, rKey, rOut, rVia, rLead, sPc, sOp, xvars>>

----------------------------------------------------------------------------
\* Bounds of the model.

\* number of successive scrape calls for the URL
MaxCalls == 2
\* number of request slots served at the same time
MaxReqs == 3
\* minutes that pass in one step of the clock
TickStep == 5
\* number of photos of a post
MaxPhotos == 2
\* number of media entries of a post
MaxMedia == 3

----------------------------------------------------------------------------
\* URLs.

Url(scheme, host, path) ==
    [parse |-> TRUE, scheme |-> scheme, host |-> host, path |-> path]

\* a string url::Url::from_str rejects
BadUrl == [parse |-> FALSE, scheme |-> "", host |-> <<>>, path |-> <<>>]

\* https://twitter.com/user/status/1
TweetUrl == Url("https", <<"twitter", "com">>, <<"user", "status", "1">>)
\* https://www.deviantart.com/user/art/Title-1
DeviationUrl ==
    Url("https", <<"www", "deviantart", "com">>, <<"user", "art", "Title-1">>)
\* https://blog.tumblr.com/post/1/slug
TumblrUrl ==
    Url("https", <<"blog", "tumblr", "com">>, <<"post", "1", "slug">>)


\* the URLs scrape is called with; besides the above:
\*   https://mobile.twitter.com/user/status/1/post/2
\*   https://deviantart.com/user/post/1
\*   https://example.org/about
\*   https://nitter.net/user/status/1
\*   https://static.example.org/img/1.png
\*   https://derpibooru.org/images/1
\*   https://buzzly.art/~user/art/slug
\*   mailto:user  (a URL without a host)
Catalog ==
    {BadUrl, TweetUrl, DeviationUrl, TumblrUrl,
     Url("https", <<"mobile", "twitter", "com">>,
         <<"user", "status", "1", "post", "2">>),
     Url("https", <<"deviantart", "com">>, <<"user", "post", "1">>),
     Url("https", <<"example", "org">>, <<"about">>),
     Url("https", <<"nitter", "net">>, <<"user", "status", "1">>),
     Url("https", <<"static", "example", "org">>, <<"img", "1.png">>),
     Url("https", <<"derpibooru", "org">>, <<"images", "1">>),
     Url("https", <<"buzzly", "art">>, <<"~user", "art", "slug">>),
     Url("mailto", <<>>, <<"user">>)}

\* segments made of [A-Za-z\d_] only
WordSegments ==
    {"user", "status", "post", "image", "images", "art", "img", "about",
     "slug", "1", "2"}
\* segments that begin with a digit
DigitLed == {"1", "2", "1.png"}

IsHttp(u) == u.scheme \in {"http", "https"}

----------------------------------------------------------------------------
\* The classification predicates.

\* \Ahttps?://(?:mobile\.)?twitter.com/([A-Za-z\d_]+)/status/([\d]+)/?
is_twitter(u) ==
    /\ IsHttp(u)
    /\ u.host \in {<<"twitter", "com">>, <<"mobile", "twitter", "com">>}
    /\ Len(u.path) >= 3
    /\ u.path[1] \in WordSegments
    /\ u.path[2] = "status"
    /\ u.path[3] \in DigitLed

NITTER_INSTANCES ==
    {<<"nitter", "net">>, <<"nitter", "42l", "fr">>,
     <<"nitter", "nixnet", "services">>, <<"nitter", "mastodont", "cat">>,
     <<"nitter", "tedomum", "net">>, <<"nitter", "fdn", "fr">>,
     <<"nitter", "kavin", "rocks">>, <<"tweet", "lambda", "dance">>,
     <<"nitter", "cc">>, <<"nitter", "vxempire", "xyz">>,
     <<"nitter", "unixfox", "eu">>, <<"nitter", "domain", "glass">>,
     <<"nitter", "eu">>, <<"nitter", "ethibox", "fr">>,
     <<"nitter", "namazso", "eu">>, <<"nitter", "mailstation", "de">>,
     <<"nitter", "actionsack", "com">>, <<"nitter", "cattube", "org">>,
     <<"nitter", "dark", "fail">>, <<"birdsite", "xanny", "family">>,
     <<"nitter", "40two", "app">>, <<"nitter", "skrep", "in">>}

\* /([A-Za-z\d_]+)/status/([\d]+)[?#]*.*  searched in the path
TWEET_REGEX(path) ==
    \E i \in 1..Len(path) :
        /\ i + 2 <= Len(path)
        /\ path[i] \in WordSegments
        /\ path[i + 1] = "status"
        /\ path[i + 2] \in DigitLed

is_nitter(u) ==
    IF u.host = <<>> THEN FALSE
    ELSE u.host \in NITTER_INSTANCES /\ TWEET_REGEX(u.path)

\* host.ends_with(".deviantart.com") || host == "deviantart.com"
is_deviantart(u) ==
    IF u.host = <<>> THEN FALSE
    ELSE \/ /\ Len(u.host) >= 3
            /\ SubSeq(u.host, Len(u.host) - 1, Len(u.host))
                   = <<"deviantart", "com">>
         \/ u.host = <<"deviantart", "com">>

\* https?://(.*)/(image|post)/(\d+).*  searched in the whole URL
URL_REGEX(u) ==
    /\ IsHttp(u)
    /\ \E i \in 1..Len(u.path) :
           /\ i + 1 <= Len(u.path)
           /\ u.path[i] \in {"image", "post"}
           /\ u.path[i + 1] \in DigitLed

\* the answers of the resolver: a failure, an address inside TUMBLR_RANGES,
\* addresses outside of them
DnsAnswers == {"error", "in_range", "out_of_range"}

\* dns_lookup::lookup_host, then membership in TUMBLR_RANGES
tumblr_domain(d) ==
    CASE d = "error" -> "err"
      [] d = "in_range" -> "true"
      [] OTHER -> "false"

is_tumblr(u, d) ==
    IF URL_REGEX(u) THEN "true"
    ELSE IF u.host = <<>> THEN "false"
    ELSE tumblr_domain(d)

MIME_TYPES ==
    {"image/gif", "image/jpeg", "image/png", "image/svg", "image/svg+xml",
     "video/webm"}

\* the answers to the HEAD request of is_raw
HeadError == [kind |-> "error", status |-> 0, ctype |-> "none"]
HeadResp(status, ctype) ==
    [kind |-> "resp", status |-> status, ctype |-> ctype]
HeadResponses ==
    {HeadError, HeadResp(404, "text/html"), HeadResp(200, "text/html"),
     HeadResp(200, "image/png"), HeadResp(200, "missing"),
     HeadResp(200, "opaque")}

\* "missing": the response has no content-type header, indexing the header
\* map panics.  "opaque": the header is not visible ASCII, to_str fails.
\* A URL that is not http(s) is refused by the client before it is sent.
is_raw(u, h) ==
    IF ~IsHttp(u) \/ h.kind = "error" THEN "err"
    ELSE IF h.status = 200
         THEN CASE h.ctype = "missing" -> "panic"
                [] h.ctype = "opaque" -> "err"
                [] OTHER -> IF h.ctype \in MIME_TYPES THEN "true" ELSE "false"
         ELSE "false"

\* ^https://derpibooru.org/(images/)?(?P<image_id>\d+).*$
is_derpibooru(u) ==
    /\ u.scheme = "https"
    /\ u.host = <<"derpibooru", "org">>
    /\ Len(u.path) >= 1
    /\ \/ u.path[1] \in DigitLed
       \/ /\ Len(u.path) >= 2
          /\ u.path[1] = "images"
          /\ u.path[2] \in DigitLed

is_philomena(u) == is_derpibooru(u)

\* https?://buzzly\.art/~(.*)/art/(.*)
is_buzzlyart(u) ==
    /\ IsHttp(u)
    /\ u.host = <<"buzzly", "art">>
    /\ Len(u.path) >= 1
    /\ u.path[1] \in {"~user"}
    /\ \E i \in 1..Len(u.path) : u.path[i] = "art" /\ i < Len(u.path)

Bool(b) == IF b THEN "true" ELSE "false"

\* the backend modules of the repository
Modules ==
    {"twitter", "nitter", "tumblr", "deviantart", "raw", "philomena", "buzzly"}

\* what the classify function of a module answers for u
Classify(b, u, h, d) ==
    CASE b = "twitter" -> Bool(is_twitter(u))
      [] b = "nitter" -> Bool(is_nitter(u))
      [] b = "tumblr" -> is_tumblr(u, d)
      [] b = "deviantart" -> Bool(is_deviantart(u))
      [] b = "raw" -> is_raw(u, h)
      [] b = "philomena" -> Bool(is_philomena(u))
      [] OTHER -> Bool(is_buzzlyart(u))

----------------------------------------------------------------------------
\* The configuration and the operations that read it.

\* Result<T>: Ok(value) or Err(message)
Ok(v) == [tag |-> "Ok", val |-> v]
Err(m) == [tag |-> "Err", val |-> m]

\* the fields of Configuration the scrape path reads
Configuration(key, host, proxy, preferred) ==
    [camo_key |-> key, camo_host |-> host, proxy_url |-> proxy,
     preferred_nitter_instance_host |-> preferred]

\* Configuration::default()
DefaultConfig == Configuration("none", "none", "none", "none")

\* the configurations the dispatcher is exercised with
DispatchConfigs ==
    {DefaultConfig,
     Configuration("secret", "https://camo.example", "none", "nitter.eu"),
     Configuration("secret", "camo host", "none", "none"),
     Configuration("none", "none", "ftp://proxy", "none")}

\* url::Url::from_str on the strings of the configuration
ParseConfigUrl(str) ==
    CASE str = "https://camo.example" ->
             Ok(Url("https", <<"camo", "example">>, <<>>))
      [] str = "socks5://proxy:1080" -> Ok(Url("socks5", <<"proxy">>, <<>>))
      [] str = "ftp://proxy" -> Ok(Url("ftp", <<"proxy">>, <<>>))
      [] OTHER -> Err("relative URL without a base")

\* hex::encode
hex_encode(str) == "hex(" \o str \o ")"

\* CamoConfig::new: the key as hex digits, the host as a URL
CamoConfig_new(hexkey, host) ==
    LET h == ParseConfigUrl(host)
    IN  IF h.tag = "Err" THEN Err(h.val)
        ELSE Ok([key |-> hexkey, host |-> h.val])

\* data:image/png;base64  (a URL the camo library returns an error for)
DataUrl == Url("data", <<>>, <<"image/png;base64">>)

\* CamoConfig::get_camo_url: <host>/<hmac of the URL under the key>/<hex of
\* the URL>
get_camo_url(camo, u) ==
    IF u = DataUrl THEN Err("url rejected")
    ELSE Ok(Url(camo.host.scheme, camo.host.host,
                <<"hmac(" \o camo.key \o "," \o ToString(u) \o ")",
                  hex_encode(ToString(u))>>))

\* a camo_url that takes the key for the whole configuration
camo_url_key_only(cfg, u) ==
    IF cfg.camo_key = "none" THEN Ok(u)
    ELSE LET camo == CamoConfig_new(hex_encode(cfg.camo_key), cfg.camo_host)
         IN  IF camo.tag = "Err" THEN Err("camo config invalid")
             ELSE get_camo_url(camo.val, u)

camo_url(cfg, u) ==
    IF cfg.camo_key = "none" THEN Ok(u)
    ELSE IF cfg.camo_host = "none" THEN Ok(u)
    ELSE LET camo == CamoConfig_new(hex_encode(cfg.camo_key), cfg.camo_host)
         IN  IF camo.tag = "Err" THEN Err("camo config invalid")
             ELSE LET url == get_camo_url(camo.val, u)
                  IN  IF url.tag = "Err" THEN Err("camo url invalid")
                      ELSE url

\* the schemes client_with_redir_limit builds a proxy for
ProxySchemes == {"http", "https", "socks", "socks5"}

client_with_redir_limit(cfg) ==
    IF cfg.proxy_url = "none" THEN Ok("client")
    ELSE LET proxy_url == ParseConfigUrl(cfg.proxy_url)
         IN  IF proxy_url.tag = "Err" THEN Err(proxy_url.val)
             ELSE IF proxy_url.val.scheme \in ProxySchemes
             THEN Ok("client")
             ELSE Err("unknown client proxy protocol, specify http, https, socks or socks5")

client(cfg) == client_with_redir_limit(cfg)

\* main_start: Configuration::init_from_env, then State::new; neither looks
\* at the camo or proxy settings
State_new(cfg) == Ok(cfg)

NoOp == [op |-> "none", url |-> BadUrl, out |-> Ok("none")]

SInitFor(configs) ==
    /\ config \in configs
    /\ sPc = "boot"
    /\ sOp = NoOp

\* the process starts serving
SStart ==
    /\ sPc = "boot"
    /\ sPc' = IF State_new(config).tag = "Ok" THEN "serving" ELSE "exited"
    /\ UNCHANGED <<sOp, config>>
    /\ UNCHANGED <<dUrl, head, dns, checkCache, dPc, dIdx, dAns, dPolled,
                   dSel, dResult, dCalls, dPrev, dData, dChain, dResp>>
    /\ UNCHANGED <<rvars, xvars>>

\* a backend asks for the proxied form of an asset URL
SCamo(u) ==
    /\ sPc = "serving"
    /\ u.parse
    /\ sOp' = [op |-> "camo_url", url |-> u, out |-> camo_url(config, u)]
    /\ UNCHANGED <<sPc, config>>
    /\ UNCHANGED <<dUrl, head, dns, checkCache, dPc, dIdx, dAns, dPolled,
                   dSel, dResult, dCalls, dPrev, dData, dChain, dResp>>
    /\ UNCHANGED <<rvars, xvars>>

\* a backend builds its HTTP client
SClient ==
    /\ sPc = "serving"
    /\ sOp' = [op |-> "client", url |-> BadUrl, out |-> client(config)]
    /\ UNCHANGED <<sPc, config>>
    /\ UNCHANGED <<dUrl, head, dns, checkCache, dPc, dIdx, dAns, dPolled,
                   dSel, dResult, dCalls, dPrev, dData, dChain, dResp>>
    /\ UNCHANGED <<rvars, xvars>>

----------------------------------------------------------------------------
\* scraper::scrape

\* a chain that asks the raw-asset probe before the platform backends
AwaitChainRawFirst == <<"raw", "twitter", "deviantart", "tumblr", "nitter">>

\* the order of the if / else-if chain that awaits the classifications
AwaitChain == <<"twitter", "deviantart", "tumblr", "raw", "nitter">>

\* the backends scrape dispatches to
Backends == {AwaitChain[i] : i \in 1..Len(AwaitChain)}

\* Cache::wrap: the stored answer when there is one, else the function
\* (is_raw builds its client first and fails when that fails)
Wrapped(b) ==
    IF checkCache[b] # "none" THEN checkCache[b]
    ELSE IF b = "raw" /\ client(config).tag = "Err" THEN "err"
    ELSE Classify(b, dUrl, head, dns)

\* .context(...) added to a failure of the selected backend's extraction
ParserContext(b) ==
    CASE b = "twitter" -> "Twitter parser failed"
      [] b = "deviantart" -> "DeviantArt parser failed"
      [] b = "tumblr" -> "Tumblr parser failed"
      [] b = "raw" -> "Raw parser failed"
      [] OTHER -> "Nitter parser failed"

\* ---- the extraction routines ----

\* Option<T>
None == <<>>
Some(v) == <<v>>

\* the layers of an anyhow cause chain: a context or bail! message, a
\* reqwest::Error, and the source beneath a reqwest::Error (the hyper or io
\* error or the timeout it wraps)
Msg(m) == [kind |-> "message", msg |-> m]
Reqwest(m) == [kind |-> "reqwest", msg |-> m]
Source(m) == [kind |-> "source", msg |-> m]

\* reqwest errors as they come out of send() and error_for_status()
TimedOut == <<Reqwest("error sending request"), Source("operation timed out")>>
BadStatus == <<Reqwest("HTTP status server error (500)")>>

\* what the remote site answers to the requests of an extraction
Upstream ==
    {"post", "text_post", "no_post", "no_link", "error_status", "timeout",
     "bad_field", "bad_shape"}

ScrapeResultData(source_url, author_name, description, images) ==
    [source_url |-> source_url, author_name |-> author_name,
     description |-> description, images |-> images]
ScrapeImage(url, camo) == [url |-> url, camo_url |-> camo]
NoData == ScrapeResultData(None, None, None, <<>>)

\* Result<Option<ScrapeResult>> of an extraction, or a panic
Extracted(data) == [o |-> "ok", data |-> data, chain |-> <<>>]
ExtractedNone == [o |-> "none", data |-> NoData, chain |-> <<>>]
Failed(chain) == [o |-> "err", data |-> NoData, chain |-> chain]
Panicked == [o |-> "panic", data |-> NoData, chain |-> <<>>]

\* a propagation that forgets its .context(...)
ContextDropped(m, chain) == chain

\* .context(m) on a failure
Context(m, chain) == <<Msg(m)>> \o chain

\* an asset the page of the post names
AssetUrl == Url("https", <<"cdn", "example">>, <<"media", "1.jpg">>)

\* raw_scrape: the URL is its own source and only image
raw_scrape(cfg, u) ==
    LET camo == camo_url(cfg, u)
    IN  IF camo.tag = "Err" THEN Failed(<<Msg(camo.val)>>)
        ELSE Extracted(ScrapeResultData(Some(u), None, None,
                                        <<ScrapeImage(u, camo.val)>>))

\* twitter_scrape: page, script, guest token, API.  A guest-token answer
\* that is JSON but no object meets as_object().unwrap(); images whose camo
\* URL fails are dropped by flatten()
twitter_scrape(cfg, u, up) ==
    LET c == client(cfg)
        camo == camo_url(cfg, AssetUrl)
        page_url == Url("https", <<"twitter", "com">>, SubSeq(u.path, 1, 3))
    IN  IF c.tag = "Err"
        THEN Failed(Context("could not create twitter agent", <<Msg(c.val)>>))
        ELSE CASE up = "timeout" ->
                      Failed(Context("initial page request failed",
                          Context("could not get api_data request", TimedOut)))
               [] up = "error_status" ->
                      Failed(Context("initial page request failed",
                          Context("bad status code for api_data request",
                                  BadStatus)))
               [] up = "bad_field" ->
                      Failed(Context("could not get guest token",
                          <<Msg("no GT in twitter API response")>>))
               [] up = "bad_shape" -> Panicked
               [] up = "no_post" -> ExtractedNone
               [] OTHER ->
                      IF camo.tag = "Err" THEN ExtractedNone
                      ELSE Extracted(ScrapeResultData(Some(page_url),
                               Some(u.path[1]), Some("text"),
                               <<ScrapeImage(AssetUrl, camo.val)>>))

\* deviantart_scrape: the page is searched for image, source and artist
deviantart_scrape(cfg, u, up) ==
    LET c == client(cfg)
        camo == camo_url(cfg, AssetUrl)
    IN  IF c.tag = "Err" THEN Failed(<<Msg(c.val)>>)
        ELSE CASE up = "timeout" -> Failed(Context("image request failed", TimedOut))
               [] up \in {"error_status", "bad_field", "bad_shape"} ->
                      Failed(Context("could not extract DA page data",
                                     <<Msg("no image found")>>))
               [] up = "no_post" -> ExtractedNone
               [] OTHER ->
                      IF camo.tag = "Err"
                      THEN Failed(Context("could not extract DA page data",
                               Context("could not camo URL", <<Msg(camo.val)>>)))
                      ELSE Extracted(ScrapeResultData(Some(u), Some("artist"),
                               None, <<ScrapeImage(AssetUrl, camo.val)>>))

\* an image is lost with the pairs that follow it
RECURSIVE tumblr_images_strict(_, _)
tumblr_images_strict(cfg, pairs) ==
    IF pairs = <<>> THEN <<>>
    ELSE LET camo == camo_url(cfg, Head(pairs)[2])
         IN  IF camo.tag = "Err" THEN <<>>
             ELSE <<ScrapeImage(Head(pairs)[1], camo.val)>>
                      \o tumblr_images_strict(cfg, Tail(pairs))

\* flat_map over the (image, preview) pairs: a pair whose camo URL fails
\* yields nothing
RECURSIVE tumblr_images(_, _)
tumblr_images(cfg, pairs) ==
    IF pairs = <<>> THEN <<>>
    ELSE LET camo == camo_url(cfg, Head(pairs)[2])
             rest == tumblr_images(cfg, Tail(pairs))
         IN  IF camo.tag = "Err" THEN rest
             ELSE <<ScrapeImage(Head(pairs)[1], camo.val)>> \o rest

\* tumblr_scrape: a URL without /post/<id> has no post; then the API.  A
\* photo post loses the images whose camo URL fails, a text post fails with
\* the first of them
tumblr_scrape(cfg, u, up) ==
    LET c == client(cfg)
        camo == camo_url(cfg, AssetUrl)
    IN  IF ~URL_REGEX(u) \/ u.host = <<>> THEN ExtractedNone
        ELSE IF c.tag = "Err" THEN Failed(<<Msg(c.val)>>)
        ELSE CASE up = "timeout" -> Failed(Context("request to tumblr failed", TimedOut))
               [] up = "error_status" ->
                      Failed(Context("request to tumblr returned error code",
                                     BadStatus))
               [] up \in {"bad_field", "bad_shape"} ->
                      Failed(<<Msg("tumblr returned non-200 error")>>)
               [] up = "no_post" -> ExtractedNone
               [] up = "text_post" ->
                      IF camo.tag = "Err" THEN Failed(<<Msg(camo.val)>>)
                      ELSE Extracted(ScrapeResultData(Some(u), Some("blog"),
                               Some("summary"),
                               <<ScrapeImage(AssetUrl, camo.val)>>))
               [] OTHER ->
                      Extracted(ScrapeResultData(Some(u), Some("blog"),
                          Some("summary"),
                          tumblr_images(cfg, <<<<AssetUrl, AssetUrl>>>>)))

\* Url::set_host with a host of the configuration
SetHost(u, host) ==
    IF host = "nitter.eu" THEN [u EXCEPT !.host = <<"nitter", "eu">>] ELSE u

\* the URL the "Open in Twitter" link of a rendered post carries
OpenInTwitter(u) == Url("https", <<"twitter", "com">>, u.path)

\* source_url of nitter_scrape: the href of the link when the page has one,
\* else the URL that was fetched
nitter_source(fetched, u, up) ==
    IF up \in {"no_link", "bad_field", "bad_shape"} THEN fetched
    ELSE OpenInTwitter(u)

\* nitter_scrape: the page is fetched from the preferred host when one is
\* set; the markup is read leniently, so a page of any shape gives a result
nitter_scrape(cfg, u, up) ==
    LET fetched == IF cfg.preferred_nitter_instance_host # "none"
                   THEN SetHost(u, cfg.preferred_nitter_instance_host)
                   ELSE u
        c == client(cfg)
        image == Url(u.scheme, u.host, <<"pic", "media.jpg">>)
        camo == camo_url(cfg, image)
    IN  IF c.tag = "Err"
        THEN Failed(Context("can't get HTTP client", <<Msg(c.val)>>))
        ELSE CASE up = "timeout" -> Failed(Context("request to nitter failed", TimedOut))
               [] up = "error_status" ->
                      Failed(Context("nitter request failed", BadStatus))
               [] up \in {"no_post", "bad_shape"} ->
                      Extracted(ScrapeResultData(
                          Some(nitter_source(fetched, u, up)), Some(""),
                          Some(""), <<>>))
               [] OTHER ->
                      IF camo.tag = "Err"
                      THEN Failed(Context("could not camo url", <<Msg(camo.val)>>))
                      ELSE Extracted(ScrapeResultData(
                               Some(nitter_source(fetched, u, up)),
                               Some(u.path[1]), Some("text"),
                               <<ScrapeImage(image, camo.val)>>))

\* the extraction of backend b
Extract(b, cfg, u, up) ==
    CASE b = "twitter" -> twitter_scrape(cfg, u, up)
      [] b = "deviantart" -> deviantart_scrape(cfg, u, up)
      [] b = "tumblr" -> tumblr_scrape(cfg, u, up)
      [] b = "raw" -> raw_scrape(cfg, u)
      [] OTHER -> nitter_scrape(cfg, u, up)

NoResult == [kind |-> "unset", by |-> "nobody", ctx |-> ""]
NoMatch == [kind |-> "none", by |-> "nobody", ctx |-> ""]
ParseFailure ==
    [kind |-> "err", by |-> "nobody", ctx |-> "could not parse URL for scraper"]

\* the outcomes of a backend's extraction: a post, no post, a failure
ExtractOutcomes(b) ==
    IF b \in {"raw", "nitter"} THEN {"ok", "err"} ELSE {"ok", "none", "err"}

\* a scrape that takes an extraction without a post for a failure
ScrapeReturnNoneFails(b, o) ==
    CASE o = "ok" -> [kind |-> "ok", by |-> b, ctx |-> ""]
      [] OTHER -> [kind |-> "err", by |-> b, ctx |-> ParserContext(b)]

\* what scrape returns after the extraction of b ended with outcome o
ScrapeReturn(b, o) ==
    CASE o = "ok" -> [kind |-> "ok", by |-> b, ctx |-> ""]
      [] o = "none" -> [kind |-> "none", by |-> b, ctx |-> ""]
      [] OTHER -> [kind |-> "err", by |-> b, ctx |-> ParserContext(b)]

Unasked == [b \in Backends |-> "unasked"]
EmptyCheckCache == [b \in Backends |-> "none"]
NoPrev == [matching |-> {}, sel |-> "unset"]

\* the backends whose classification answers true in the current call
Matching == {b \in Backends : Wrapped(b) = "true"}

\* the chain of the failure to parse the URL
ParseChain ==
    Context("could not parse URL for scraper",
            <<Msg("relative URL without a base")>>)

\* a filter that also drops the layer right above a reqwest::Error
from_err_cause_filtered(chain) ==
    LET idx == {i \in 1..Len(chain) :
                   /\ chain[i].kind # "reqwest"
                   /\ (i < Len(chain) => chain[i + 1].kind # "reqwest")}
        kept == SelectSeq([i \in 1..Len(chain) |->
                               IF i \in idx THEN chain[i]
                               ELSE Reqwest("")],
                          LAMBDA l : l.kind # "reqwest")
    IN  [errors |-> [i \in 1..Len(kept) |-> kept[i].msg]]

\* ScrapeResult::from_err: the messages of the layers of the chain that are
\* no reqwest::Error, in the order of the chain
from_err(chain) ==
    LET kept == SelectSeq(chain, LAMBDA l : l.kind # "reqwest")
    IN  [errors |-> [i \in 1..Len(kept) |-> kept[i].msg]]

Response(status, ctype, body) ==
    [status |-> status, ctype |-> ctype, body |-> body]
NoResp == Response(0, "none", [unset |-> TRUE])
\* the task of the request ended in a panic: no response is written
Aborted == Response(0, "none", [aborted |-> TRUE])

\* scrape_inner on what try_get_with returned
scrape_inner(res, data, chain) ==
    CASE res.kind = "err" ->
             Ok(Response(200, "application/json", from_err(chain)))
      [] res.kind = "none" ->
             Ok(Response(200, "application/json",
                         [errors |-> <<"URL invalid">>]))
      [] OTHER -> Ok(Response(200, "application/json", data))

\* scrape_post / scrape: Ok(v) => v, Err(_) => todo!()
Handler(inner) == IF inner.tag = "Ok" THEN inner.val ELSE Aborted

DInit ==
    /\ dData = NoData
    /\ dChain = <<>>
    /\ dResp = NoResp
    /\ dUrl \in Catalog
    /\ head \in HeadResponses
    /\ dns \in DnsAnswers
    /\ checkCache = EmptyCheckCache
    /\ dPc = "idle"
    /\ dIdx = 0
    /\ dAns = Unasked
    /\ dPolled = {}
    /\ dSel = "none"
    /\ dResult = NoResult
    /\ dCalls = 0
    /\ dPrev = NoPrev

\* scrape is called: the URL is parsed and the five wrapped classification
\* futures are built; none of them runs yet.
DCall ==
    /\ dPc = "idle"
    /\ dCalls < MaxCalls
    /\ dAns' = Unasked
    /\ dPolled' = {}
    /\ dSel' = "none"
    /\ dData' = NoData
    /\ dResp' = NoResp
    /\ IF dUrl.parse
       THEN /\ dPc' = "classify"
            /\ dIdx' = 1
            /\ dResult' = NoResult
            /\ dChain' = <<>>
       ELSE /\ dPc' = "returned"
            /\ dIdx' = 0
            /\ dResult' = ParseFailure
            /\ dChain' = ParseChain
    /\ UNCHANGED <<dUrl, head, dns, checkCache, dCalls, dPrev, config>>
    /\ UNCHANGED <<rvars, svars, xvars>>

\* an unwrap that takes a failed classification for a match
unwrap_or_true(a) == IF a = "err" THEN "true" ELSE a

\* .unwrap_or(false) on the Result of an awaited classification
unwrap_or_false(a) == IF a = "err" THEN "false" ELSE a

\* one `is_x.await.unwrap_or(false)` of the chain
DClassify ==
    /\ dPc = "classify"
    /\ LET b == AwaitChain[dIdx]
           a == Wrapped(b)
           miss == checkCache[b] = "none"
       IN  /\ dPolled' = IF miss THEN dPolled \cup {b} ELSE dPolled
           /\ checkCache' = IF miss /\ a \in {"true", "false"}
                            THEN [checkCache EXCEPT ![b] = a]
                            ELSE checkCache
           /\ IF a = "panic"
              THEN /\ dPc' = "panicked"
                   /\ UNCHANGED <<dAns, dSel, dIdx, dResult>>
              ELSE /\ dAns' = [dAns EXCEPT ![b] = a]
                   /\ IF unwrap_or_false(a) = "true"
                      THEN /\ dSel' = b
                           /\ dPc' = "extract"
                           /\ UNCHANGED <<dIdx, dResult>>
                      ELSE IF dIdx < Len(AwaitChain)
                      THEN /\ dIdx' = dIdx + 1
                           /\ UNCHANGED <<dSel, dPc, dResult>>
                      ELSE /\ dPc' = "returned"
                           /\ dResult' = NoMatch
                           /\ UNCHANGED <<dSel, dIdx>>
    /\ UNCHANGED <<dUrl, head, dns, dCalls, dPrev, config, dData, dChain,
                   dResp>>
    /\ UNCHANGED <<rvars, svars, xvars>>

\* the extraction of the selected backend, with its context on failure
DExtract ==
    /\ dPc = "extract"
    /\ \E up \in Upstream :
           LET x == Extract(dSel, config, dUrl, up)
           IN  IF x.o = "panic"
               THEN /\ dPc' = "panicked"
                    /\ UNCHANGED <<dResult, dData, dChain>>
               ELSE /\ dPc' = "returned"
                    /\ dResult' = ScrapeReturn(dSel, x.o)
                    /\ dData' = x.data
                    /\ dChain' = IF x.o = "err"
                                 THEN Context(ParserContext(dSel), x.chain)
                                 ELSE <<>>
    /\ UNCHANGED <<dUrl, head, dns, checkCache, dIdx, dAns, dPolled, dSel,
                   dCalls, dPrev, config, dResp>>
    /\ UNCHANGED <<rvars, svars, xvars>>

\* scrape_inner takes the result and the handler answers; the call's frame
\* is dropped and the next call may follow
DReturn ==
    /\ dPc = "returned"
    /\ dPc' = "idle"
    /\ dResp' = Handler(scrape_inner(dResult, dData, dChain))
    /\ dData' = NoData
    /\ dChain' = <<>>
    /\ dCalls' = dCalls + 1
    /\ dPrev' = [matching |-> IF dUrl.parse THEN Matching ELSE {},
                 sel |-> dSel]
    /\ dIdx' = 0
    /\ dAns' = Unasked
    /\ dPolled' = {}
    /\ dSel' = "none"
    /\ dResult' = NoResult
    /\ UNCHANGED <<dUrl, head, dns, checkCache, config>>
    /\ UNCHANGED <<rvars, svars, xvars>>

\* a panic inside scrape unwinds through scrape_inner and the handler: the
\* task of the request ends without a response
DUnwind ==
    /\ dPc = "panicked"
    /\ dPc' = "idle"
    /\ dResp' = Aborted
    /\ dCalls' = dCalls + 1
    /\ dPrev' = NoPrev
    /\ dIdx' = 0
    /\ dAns' = Unasked
    /\ dPolled' = {}
    /\ dSel' = "none"
    /\ dResult' = NoResult
    /\ dData' = NoData
    /\ dChain' = <<>>
    /\ UNCHANGED <<dUrl, head, dns, checkCache, config>>
    /\ UNCHANGED <<rvars, svars, xvars>>

\* between two calls the network may answer differently
DNetChange ==
    /\ dPc = "idle"
    /\ dCalls > 0
    /\ head' \in HeadResponses
    /\ dns' \in DnsAnswers
    /\ <<head', dns'>> # <<head, dns>>
    /\ UNCHANGED <<dUrl, checkCache, dPc, dIdx, dAns, dPolled, dSel, dResult,
                   dCalls, dPrev, config, dData, dChain, dResp>>
    /\ UNCHANGED <<rvars, svars, xvars>>

\* an entry of the check cache reaches cache_check_duration
DCheckExpire ==
    /\ dPc = "idle"
    /\ \E b \in Backends :
           /\ checkCache[b] # "none"
           /\ checkCache' = [checkCache EXCEPT ![b] = "none"]
    /\ UNCHANGED <<dUrl, head, dns, dPc, dIdx, dAns, dPolled, dSel, dResult,
                   dCalls, dPrev, config, dData, dChain, dResp>>
    /\ UNCHANGED <<rvars, svars, xvars>>

----------------------------------------------------------------------------
\* twitter::twitter_scrape: the four requests of an extraction over the
\* request cache (SpecTwitter).

\* the status ids of the posts that are extracted
Posts == {"1", "2"}
\* the guest tokens the activation hands out
GuestTokens == {"gt1", "gt2"}

\* https://twitter.com/user/status/<id>
PageUrl(p) == Url("https", <<"twitter", "com">>, <<"user", "status", p>>)

\* a second asset of a post
SecondAssetUrl == Url("https", <<"cdn", "example">>, <<"media", "2.jpg">>)

\* entities.media of the posts, as media_url_https (none carries ":orig",
\* so trim_end_matches leaves each as it is)
TweetMedia(p) ==
    IF p = "1" THEN <<AssetUrl, DataUrl, SecondAssetUrl>> ELSE <<>>

\* the requests in the order of the awaits
Legs == <<"page", "script", "activation", "api">>

\* the keys handed to reqwest_cache.wrap: the page URL, the script URL, and
\* the API URL with the guest token and the bearer
PageKey(p) == <<"page", p>>
ScriptKey == <<"script">>
ApiKey(p, gt) == <<"api", p, gt>>
CacheKeys ==
    {PageKey(p) : p \in Posts} \cup {ScriptKey}
        \cup {ApiKey(p, gt) : p \in Posts, gt \in GuestTokens}
\* the activation request: ACTIVATION_URL with the bearer
ActivationKey == <<"activation">>

\* send() and error_for_status() failing
NetErrors == {"timeout", "error_status"}
\* a body that holds what the next step looks for, and one that does not
TextBodies == {"ok", "unusable"}

\* Cache::wrap: the stored answer when the key holds one, else the future
\* runs and its Ok answer is stored
wrap(cache, key, answer, bodies) ==
    IF cache[key] # "absent"
    THEN [val |-> cache[key], cache |-> cache, sent |-> FALSE]
    ELSE IF answer \in bodies
    THEN [val |-> answer, cache |-> [cache EXCEPT ![key] = answer],
          sent |-> TRUE]
    ELSE [val |-> answer, cache |-> cache, sent |-> TRUE]

\* the failure of a request function: send() or error_for_status()
RequestError(answer, sending, status) ==
    IF answer = "timeout" THEN Context(sending, TimedOut)
    ELSE Context(status, BadStatus)

\* the closure over the media entries and flatten(): an entry whose camo URL
\* fails yields nothing
RECURSIVE twitter_images(_, _)
twitter_images(cfg, media) ==
    IF media = <<>> THEN <<>>
    ELSE LET camo == camo_url(cfg, Head(media))
             rest == twitter_images(cfg, Tail(media))
         IN  IF camo.tag = "Err" THEN rest
             ELSE <<ScrapeImage(Head(media), camo.val)>> \o rest

\* a result with images whatever their number
twitter_result_unchecked(p, images) ==
    Extracted(ScrapeResultData(Some(PageUrl(p)), Some("user"), Some("text"),
                               images))

\* the end of twitter_scrape: no images, no result
twitter_result(p, images) ==
    IF images = <<>> THEN ExtractedNone
    ELSE Extracted(ScrapeResultData(Some(PageUrl(p)), Some("user"),
                                    Some("text"), images))

Pending == [o |-> "pending", data |-> NoData, chain |-> <<>>]

\* twitter_scrape is called for a post: the client is built first
TStart(p) ==
    /\ tPc = "idle"
    /\ tRuns < MaxCalls
    /\ tPost' = p
    /\ LET c == client(config)
       IN  IF c.tag = "Err"
           THEN /\ tPc' = "done"
                /\ tOut' = Failed(Context("could not create twitter agent",
                                          <<Msg(c.val)>>))
           ELSE /\ tPc' = "page"
                /\ tOut' = Pending
    /\ UNCHANGED <<tGt, tNet, tCache, tServed, tRuns>>
    /\ UNCHANGED <<dvars, rvars, svars, uvars, avars, ivars>>

\* the page request behind the cache, then SCRIPT_REGEX on the page
TPage ==
    /\ tPc = "page"
    /\ \E a \in TextBodies \cup NetErrors :
           LET w == wrap(tCache, PageKey(tPost), a, TextBodies)
           IN  /\ tCache' = w.cache
               /\ tNet' = IF w.sent THEN Append(tNet, "page") ELSE tNet
               /\ tServed' = IF w.sent /\ w.val \in TextBodies
                             THEN tServed \cup {PageKey(tPost)} ELSE tServed
               /\ IF w.val \in NetErrors
                  THEN /\ tPc' = "done"
                       /\ tOut' = Failed(Context("initial page request failed",
                              RequestError(w.val,
                                  "could not get api_data request",
                                  "bad status code for api_data request")))
                  ELSE IF w.val = "unusable"
                  THEN /\ tPc' = "done"
                       /\ tOut' = Failed(<<Msg("could not get script")>>)
                  ELSE /\ tPc' = "script"
                       /\ tOut' = tOut
    /\ UNCHANGED <<tPost, tGt, tRuns>>
    /\ UNCHANGED <<dvars, rvars, svars, uvars, avars, ivars>>

\* the script request behind the cache, then BEARER_REGEX on the script
TScript ==
    /\ tPc = "script"
    /\ \E a \in TextBodies \cup NetErrors :
           LET w == wrap(tCache, ScriptKey, a, TextBodies)
           IN  /\ tCache' = w.cache
               /\ tNet' = IF w.sent THEN Append(tNet, "script") ELSE tNet
               /\ tServed' = IF w.sent /\ w.val \in TextBodies
                             THEN tServed \cup {ScriptKey} ELSE tServed
               /\ IF w.val \in NetErrors
                  THEN /\ tPc' = "done"
                       /\ tOut' = Failed(Context("invalid script_data response",
                              RequestError(w.val,
                                  "could not get script_data request",
                                  "bad status for script data request")))
                  ELSE IF w.val = "unusable"
                  THEN /\ tPc' = "done"
                       /\ tOut' = Failed(<<Msg("could not get bearer")>>)
                  ELSE /\ tPc' = "activation"
                       /\ tOut' = tOut
    /\ UNCHANGED <<tPost, tGt, tRuns>>
    /\ UNCHANGED <<dvars, rvars, svars, uvars, avars, ivars>>

\* get_gt_token: the activation request goes to the network whatever the
\* cache holds.  The JSON of the answer has the token, or no guest_token
\* field, or is no object and meets as_object().unwrap()
TActivation ==
    /\ tPc = "activation"
    /\ \E a \in GuestTokens \cup {"no_field", "bad_shape"} \cup NetErrors :
           /\ tNet' = Append(tNet, "activation")
           /\ tServed' = IF a \in GuestTokens
                         THEN tServed \cup {ActivationKey} ELSE tServed
           /\ CASE a \in NetErrors ->
                       /\ tPc' = "done"
                       /\ tGt' = tGt
                       /\ tOut' = Failed(Context("could not get guest token",
                              RequestError(a,
                                  "could not complete activation request",
                                  "bad status for GT activation")))
                [] a = "no_field" ->
                       /\ tPc' = "done"
                       /\ tGt' = tGt
                       /\ tOut' = Failed(Context("could not get guest token",
                              <<Msg("no GT in twitter API response")>>))
                [] a = "bad_shape" ->
                       /\ tPc' = "done"
                       /\ tGt' = tGt
                       /\ tOut' = Panicked
                [] OTHER ->
                       /\ tPc' = "api"
                       /\ tGt' = a
                       /\ tOut' = tOut
    /\ UNCHANGED <<tPost, tCache, tRuns>>
    /\ UNCHANGED <<dvars, rvars, svars, uvars, avars, ivars>>

\* the API request behind the cache, then index_mut on the answer (an
\* object, or a value that is neither object nor null), the images and the
\* result
TApi ==
    /\ tPc = "api"
    /\ \E a \in {"ok", "bad_shape"} \cup NetErrors :
           LET w == wrap(tCache, ApiKey(tPost, tGt), a, {"ok", "bad_shape"})
           IN  /\ tCache' = w.cache
               /\ tNet' = IF w.sent THEN Append(tNet, "api") ELSE tNet
               /\ tServed' = IF w.sent /\ w.val \in {"ok", "bad_shape"}
                             THEN tServed \cup {ApiKey(tPost, tGt)}
                             ELSE tServed
               /\ tOut' =
                     IF w.val \in NetErrors
                     THEN Failed(Context("invalid api response",
                              RequestError(w.val, "API request failed",
                                           "API request is not 200 code")))
                     ELSE IF w.val = "bad_shape" THEN Panicked
                     ELSE twitter_result(tPost,
                              twitter_images(config, TweetMedia(tPost)))
    /\ tPc' = "done"
    /\ UNCHANGED <<tPost, tGt, tRuns>>
    /\ UNCHANGED <<dvars, rvars, svars, uvars, avars, ivars>>

\* the caller has the result (or the panic has unwound)
TReturn ==
    /\ tPc = "done"
    /\ tPc' = "idle"
    /\ tPost' = "none"
    /\ tGt' = "none"
    /\ tNet' = <<>>
    /\ tOut' = Pending
    /\ tRuns' = tRuns + 1
    /\ UNCHANGED <<tCache, tServed>>
    /\ UNCHANGED <<dvars, rvars, svars, uvars, avars, ivars>>

\* cache_http_duration has passed since the request behind key k
TExpire(k) ==
    /\ k \in tServed
    /\ tServed' = tServed \ {k}
    /\ tCache' = [c \in CacheKeys |-> IF c = k THEN "absent" ELSE tCache[c]]
    /\ UNCHANGED <<tPc, tPost, tGt, tNet, tOut, tRuns>>
    /\ UNCHANGED <<dvars, rvars, svars, uvars, avars, ivars>>

TNext ==
    \/ \E p \in Posts : TStart(p)
    \/ TPage
    \/ TScript
    \/ TActivation
    \/ TApi
    \/ TReturn
    \/ \E k \in CacheKeys \cup {ActivationKey} : TExpire(k)

----------------------------------------------------------------------------
\* tumblr::process_post_photo and upsize: the photos of a post, the probes
\* of the size tiers and the images of the result (SpecTumblr).

\* the sequences over S of at most n elements
SeqsUpTo(S, n) == UNION {[1..k -> S] : k \in 0..n}

TUMBLR_SIZES == <<1280, 540, 500, 400, 250, 100, 75>>

\* photo["original_size"]["url"]: a string that ends in _<digits>.<ext>, a
\* string that does not, or a value that is no string
SizedOriginal == [str |-> TRUE, stem |-> "tumblr_a", size |-> 500, ext |-> ".png"]
UnsizedOriginal == [str |-> TRUE, stem |-> "tumblr_b", size |-> 0, ext |-> ".gif"]
NoOriginal == [str |-> FALSE, stem |-> "", size |-> 0, ext |-> ""]

\* SIZE_REGEX.replace with "_<size><ext>", then Url::from_str: a string the
\* expression does not match stays as it is.  The URLs are
\* https://64.media.tumblr.com/hash/<file>
Candidate(orig, size) ==
    Url("https", <<"64", "media", "tumblr", "com">>,
        <<"hash", IF orig.size = 0 THEN orig.stem \o orig.ext
                  ELSE orig.stem \o "_" \o ToString(size) \o orig.ext>>)

\* post["photos"].as_array(): a photo has its original and may have an entry
\* of width 400 in alt_sizes
PhotoArrays ==
    {None} \cup
    {Some(l) : l \in SeqsUpTo(
        {[original_size |-> SizedOriginal, alt_400 |-> TRUE],
         [original_size |-> UnsizedOriginal, alt_400 |-> FALSE],
         [original_size |-> NoOriginal, alt_400 |-> FALSE]}, MaxPhotos)}

\* urls.last()
last(urls) == IF urls = <<>> THEN None ELSE Some(urls[Len(urls)])

\* urls.first()
first(urls) == IF urls = <<>> THEN None ELSE Some(urls[1])

\* a loop over the sizes that breaks at the first size that answers 200
after_probe_break(i, ok) == IF ok THEN Len(TUMBLR_SIZES) + 1 ELSE i + 1

\* the loop over the sizes goes on whatever url_ok answered
after_probe(i, ok) == i + 1

\* add_meta: no images vector, no result
add_meta(images) ==
    IF images = None THEN ExtractedNone
    ELSE Extracted(ScrapeResultData(Some(TumblrUrl), Some("blog"),
                                    Some("summary"), images[1]))

\* process_post_photo is called with the post the API answered
UStart(photos) ==
    /\ uPc = "idle"
    /\ uPhotos' = photos
    /\ IF photos = None
       THEN /\ uPc' = "done"
            /\ uIdx' = 0
            /\ uOut' = add_meta(None)
       ELSE /\ uPc' = "photo"
            /\ uIdx' = 1
            /\ uOut' = Pending
    /\ UNCHANGED <<uTier, uUrls, uProbed, uRet, uImages>>
    /\ UNCHANGED <<dvars, rvars, svars, tvars, avars, ivars>>

\* the head of the loop over the photos: upsize is entered for the next
\* photo, or the pairs become the images of the result
UPhoto ==
    /\ uPc = "photo"
    /\ IF uIdx > Len(uPhotos[1])
       THEN /\ uPc' = "done"
            /\ uOut' = add_meta(Some(tumblr_images(config, uImages)))
            /\ UNCHANGED <<uIdx, uTier, uUrls, uProbed, uRet>>
       ELSE IF ~uPhotos[1][uIdx].original_size.str
       THEN /\ uIdx' = uIdx + 1
            /\ uRet' = None
            /\ uUrls' = <<>>
            /\ uProbed' = <<>>
            /\ UNCHANGED <<uPc, uTier, uOut>>
       ELSE /\ uPc' = "probe"
            /\ uTier' = 1
            /\ uUrls' = <<>>
            /\ uProbed' = <<>>
            /\ uRet' = None
            /\ UNCHANGED <<uIdx, uOut>>
    /\ UNCHANGED <<uPhotos, uImages>>
    /\ UNCHANGED <<dvars, rvars, svars, tvars, avars, ivars>>

\* one turn of the loop of upsize: url_ok on the candidate of the size; the
\* HEAD request comes to a status, or send() fails
UProbe ==
    /\ uPc = "probe"
    /\ uTier <= Len(TUMBLR_SIZES)
    /\ \E a \in {"200", "404", "error"} :
           LET size == TUMBLR_SIZES[uTier]
               image_url == Candidate(uPhotos[1][uIdx].original_size, size)
           IN  /\ uProbed' = Append(uProbed, [size |-> size, status |-> a])
               /\ IF a = "error"
                  THEN /\ uPc' = "done"
                       /\ uOut' = Failed(TimedOut)
                       /\ UNCHANGED <<uTier, uUrls>>
                  ELSE /\ uTier' = after_probe(uTier, a = "200")
                       /\ uUrls' = IF a = "200" THEN Append(uUrls, image_url)
                                   ELSE uUrls
                       /\ UNCHANGED <<uPc, uOut>>
    /\ UNCHANGED <<uPhotos, uIdx, uRet, uImages>>
    /\ UNCHANGED <<dvars, rvars, svars, tvars, avars, ivars>>

\* upsize returns and the photo is pushed with its preview (the URL of the
\* alt size of width 400, else the image), or skipped
UUpsized ==
    /\ uPc = "probe"
    /\ uTier > Len(TUMBLR_SIZES)
    /\ uRet' = first(uUrls)
    /\ uImages' =
          IF uRet' = None THEN uImages
          ELSE LET photo == uPhotos[1][uIdx]
                   preview == IF photo.alt_400
                              THEN Candidate(photo.original_size, 400)
                              ELSE uRet'[1]
               IN  Append(uImages, <<uRet'[1], preview>>)
    /\ uIdx' = uIdx + 1
    /\ uPc' = "photo"
    /\ UNCHANGED <<uPhotos, uTier, uUrls, uProbed, uOut>>
    /\ UNCHANGED <<dvars, rvars, svars, tvars, avars, ivars>>

\* the caller has the result
UReturn ==
    /\ uPc = "done"
    /\ uPc' = "idle"
    /\ uPhotos' = None
    /\ uIdx' = 0
    /\ uTier' = 0
    /\ uUrls' = <<>>
    /\ uProbed' = <<>>
    /\ uRet' = None
    /\ uImages' = <<>>
    /\ uOut' = Pending
    /\ UNCHANGED <<dvars, rvars, svars, tvars, avars, ivars>>

UNext ==
    \/ \E photos \in PhotoArrays : UStart(photos)
    \/ UPhoto
    \/ UProbe
    \/ UUpsized
    \/ UReturn

----------------------------------------------------------------------------
\* deviantart::deviantart_scrape after extract_data: the three hi-res steps
\* over the images vector (SpecDeviantart).

\* an image URL by the parts the expressions look at: the wixmp host, the
\* /intermediary and /f segments, the format of the /v1/fill rendition (if
\* any) and its q_ value
DaUrl(cdn, inter, f, fill, q) ==
    [cdn |-> cdn, inter |-> inter, f |-> f, fill |-> fill, q |-> q]

\* the digits SERIAL_REGEX captures from the canonical URL: none, a serial,
\* or more digits than an i64 holds
NoSerial == 0
TooLong == -1

\* what extract_data takes from the page: the image the page preloads and
\* the serial of the canonical URL
Pages ==
    [image : {DaUrl(cdn, FALSE, TRUE, fill, IF fill = "jpg" THEN 80 ELSE 0) :
                 cdn \in BOOLEAN, fill \in {"png", "jpg", "none"}},
     serial : {NoSerial, 1234567, TooLong}]

PNG_REGEX(u) == u.f /\ u.fill = "png"
JPG_REGEX(u) == u.f /\ u.fill = "jpg"
CDNINT_REGEX(u) == u.cdn /\ u.f

\* radix_fmt::radix(n, 36), in lower case
RECURSIVE radix36(_)
radix36(n) ==
    LET digits ==
            <<"0", "1", "2", "3", "4", "5", "6", "7", "8", "9", "a", "b",
              "c", "d", "e", "f", "g", "h", "i", "j", "k", "l", "m", "n",
              "o", "p", "q", "r", "s", "t", "u", "v", "w", "x", "y", "z">>
    IN  IF n < 36 THEN digits[n + 1]
        ELSE radix36(n \div 36) \o digits[(n % 36) + 1]

\* where the Location header of the answer points
LocationUrl == Url("https", <<"orig00", "deviantart", "net">>, <<"full.png">>)

\* the variants the loop of try_new_hires pushes for the images it walks:
\* "{1}.png{3}" puts back the ".png" the expression took out, "{1}100{3}"
\* sets the q_ value to 100
RECURSIVE new_hires_all(_)
new_hires_all(todo) ==
    IF todo = <<>> THEN <<>>
    ELSE LET image == Head(todo)
             png == IF PNG_REGEX(image.url)
                    THEN <<ScrapeImage(image.url, image.camo_url)>>
                    ELSE <<>>
             jpg == IF JPG_REGEX(image.url)
                    THEN <<ScrapeImage([image.url EXCEPT !.q = 100],
                                       image.camo_url)>>
                    ELSE <<>>
         IN  png \o jpg \o new_hires_all(Tail(todo))

\* a rewrite that puts the variants in the place of the images
try_new_hires_replacing(images) ==
    IF new_hires_all(images) = <<>> THEN images ELSE new_hires_all(images)

\* try_new_hires: the variants of the images are pushed behind them
try_new_hires(images) == images \o new_hires_all(images)

\* a failed step is passed over and the images so far are the result
hires_skipped(images, chain) ==
    Extracted(ScrapeResultData(Some(DeviationUrl), Some("user"), None, images))

\* the ? behind each step: its failure is the result of deviantart_scrape
hires_failed(images, chain) == Failed(chain)

\* no page
NoPage == [image |-> DaUrl(FALSE, FALSE, FALSE, "none", 0), serial |-> NoSerial]

\* the page is fetched and extract_data gives the base image with its camo
\* URL
AStart(page) ==
    /\ aPc = "idle"
    /\ aPage' = page
    /\ LET c == client(config)
           camo == camo_url(config, page.image)
       IN  IF c.tag = "Err"
           THEN /\ aPc' = "done"
                /\ aOut' = Failed(<<Msg(c.val)>>)
                /\ aImages' = <<>>
           ELSE IF camo.tag = "Err"
           THEN /\ aPc' = "done"
                /\ aOut' = Failed(Context("could not extract DA page data",
                               Context("could not camo URL", <<Msg(camo.val)>>)))
                /\ aImages' = <<>>
           ELSE /\ aPc' = "new_hires"
                /\ aOut' = Pending
                /\ aImages' = <<ScrapeImage(page.image, camo.val)>>
    /\ UNCHANGED <<aTodo, aLog, aNet>>
    /\ UNCHANGED <<dvars, rvars, svars, tvars, uvars, ivars>>

\* try_new_hires
ANewHires ==
    /\ aPc = "new_hires"
    /\ aImages' = try_new_hires(aImages)
    /\ aLog' = Append(aLog, [step |-> "new_hires", images |-> aImages'])
    /\ aPc' = "intermediary"
    /\ aTodo' = aImages'
    /\ UNCHANGED <<aPage, aNet, aOut>>
    /\ UNCHANGED <<dvars, rvars, svars, tvars, uvars, ivars>>

\* one turn of the loop of try_intermediary_hires over the clone of the
\* images, or its end; the URL of the HEAD request is
\* "{domain}/intermediary/{object_uuid}/{object_name}"
AIntermediary ==
    /\ aPc = "intermediary"
    /\ IF aTodo = <<>>
       THEN /\ aPc' = "old_hires"
            /\ aLog' = Append(aLog, [step |-> "intermediary",
                                     images |-> aImages])
            /\ UNCHANGED <<aImages, aTodo, aNet, aOut>>
       ELSE IF ~CDNINT_REGEX(Head(aTodo).url)
       THEN /\ aTodo' = Tail(aTodo)
            /\ UNCHANGED <<aPc, aImages, aLog, aNet, aOut>>
       ELSE \E a \in {"200", "404", "error"} :
                /\ aNet' = Append(aNet, [step |-> "intermediary",
                                         answer |-> a])
                /\ IF a = "error"
                   THEN /\ aPc' = "done"
                        /\ aOut' = hires_failed(aImages, Context(
                               "HEAD request to DA URL failed", TimedOut))
                        /\ UNCHANGED <<aImages, aTodo>>
                   ELSE /\ aTodo' = Tail(aTodo)
                        /\ aImages' =
                              IF a = "200"
                              THEN Append(aImages,
                                       ScrapeImage(
                                           DaUrl(TRUE, TRUE, FALSE, "none", 0),
                                           Head(aTodo).camo_url))
                              ELSE aImages
                        /\ UNCHANGED <<aPc, aOut>>
                /\ UNCHANGED aLog
    /\ UNCHANGED aPage
    /\ UNCHANGED <<dvars, rvars, svars, tvars, uvars, ivars>>

\* try_old_hires: the GET of http://orig01.deviantart.net/x_by_x-d<base36>.png
\* without following redirects, then the result
AOldHires ==
    /\ aPc = "old_hires"
    /\ aPc' = "done"
    /\ IF aPage.serial = NoSerial
       THEN /\ aOut' = hires_failed(aImages,
                           Context("old_hires conversion failed",
                                   <<Msg("no serial captured")>>))
            /\ UNCHANGED <<aImages, aLog, aNet>>
       ELSE IF aPage.serial = TooLong
       THEN /\ aOut' = hires_failed(aImages,
                           Context("old_hires conversion failed",
                               Context("integer could not be parsed",
                                   <<Msg("number too large to fit in target type")>>)))
            /\ UNCHANGED <<aImages, aLog, aNet>>
       ELSE \E a \in {"location", "no_location", "error"} :
                /\ aNet' = Append(aNet, [step |-> "old_hires", answer |-> a,
                                         url |-> Url("http",
                                             <<"orig01", "deviantart", "net">>,
                                             <<"x_by_x-d"
                                                 \o radix36(aPage.serial)
                                                 \o ".png">>)])
                /\ IF a = "error"
                   THEN /\ aOut' = hires_failed(aImages,
                                      Context("old_hires conversion failed",
                                          Context("old hires request failed",
                                                  TimedOut)))
                        /\ UNCHANGED <<aImages, aLog>>
                   ELSE /\ aImages' =
                              IF a = "location"
                              THEN Append(aImages,
                                       ScrapeImage(LocationUrl,
                                                   aImages[1].camo_url))
                              ELSE aImages
                        /\ aLog' = Append(aLog, [step |-> "old_hires",
                                                 images |-> aImages'])
                        /\ aOut' = Extracted(ScrapeResultData(
                               Some(DeviationUrl), Some("user"), None,
                               aImages'))
    /\ UNCHANGED <<aPage, aTodo>>
    /\ UNCHANGED <<dvars, rvars, svars, tvars, uvars, ivars>>

\* the caller has the result
AReturn ==
    /\ aPc = "done"
    /\ aPc' = "idle"
    /\ aPage' = NoPage
    /\ aImages' = <<>>
    /\ aTodo' = <<>>
    /\ aLog' = <<>>
    /\ aNet' = <<>>
    /\ aOut' = Pending
    /\ UNCHANGED <<dvars, rvars, svars, tvars, uvars, ivars>>

ANext ==
    \/ \E page \in Pages : AStart(page)
    \/ ANewHires
    \/ AIntermediary
    \/ AOldHires
    \/ AReturn

----------------------------------------------------------------------------
\* The camo rewrite of the images of a result, in twitter_scrape and in
\* process_post_photo (SpecImages).

\* no result yet
NoImages == [by |-> "none", res |-> Pending]

\* a post comes with its media entries, or with the images of its photos
IInput(media) ==
    /\ iPc = "idle"
    /\ iPc' = "input"
    /\ iMedia' = media
    /\ UNCHANGED iOut
    /\ UNCHANGED <<dvars, rvars, svars, tvars, uvars, avars>>

\* the end of twitter_scrape for a post with the media entries iMedia
ITwitter ==
    /\ iPc = "input"
    /\ iPc' = "built"
    /\ iOut' = [by |-> "twitter",
                res |-> twitter_result("1", twitter_images(config, iMedia))]
    /\ UNCHANGED iMedia
    /\ UNCHANGED <<dvars, rvars, svars, tvars, uvars, avars>>

\* the end of process_post_photo and add_meta for photos upsized to iMedia
\* that have no alt size of width 400: the preview is the image
ITumblr ==
    /\ iPc = "input"
    /\ iPc' = "built"
    /\ iOut' = [by |-> "tumblr",
                res |-> add_meta(Some(tumblr_images(config,
                           [i \in 1..Len(iMedia) |->
                               <<iMedia[i], iMedia[i]>>])))]
    /\ UNCHANGED iMedia
    /\ UNCHANGED <<dvars, rvars, svars, tvars, uvars, avars>>

INext ==
    \/ \E media \in SeqsUpTo({AssetUrl, SecondAssetUrl, DataUrl}, MaxMedia) :
           IInput(media)
    \/ ITwitter
    \/ ITumblr

----------------------------------------------------------------------------
\* the extraction variables when another part is exercised
XIdle ==
    /\ tPc = "idle"
    /\ tPost = "none"
    /\ tGt = "none"
    /\ tNet = <<>>
    /\ tCache = [k \in CacheKeys |-> "absent"]
    /\ tServed = {}
    /\ tOut = Pending
    /\ tRuns = 0
    /\ uPc = "idle"
    /\ uPhotos = None
    /\ uIdx = 0
    /\ uTier = 0
    /\ uUrls = <<>>
    /\ uProbed = <<>>
    /\ uRet = None
    /\ uImages = <<>>
    /\ uOut = Pending
    /\ aPc = "idle"
    /\ aPage = NoPage
    /\ aImages = <<>>
    /\ aTodo = <<>>
    /\ aLog = <<>>
    /\ aNet = <<>>
    /\ aOut = Pending
    /\ iPc = "idle"
    /\ iMedia = <<>>
    /\ iOut = NoImages

----------------------------------------------------------------------------
\* What a scrape call can return, as seen by the result cache.

\* the backend the chain selects when every classification runs afresh
RECURSIVE FirstMatchFrom(_, _, _, _)
FirstMatchFrom(i, u, h, d) ==
    IF i > Len(AwaitChain) THEN "none"
    ELSE LET a == Classify(AwaitChain[i], u, h, d)
         IN  IF a = "panic" THEN "panic"
             ELSE IF a = "true" THEN AwaitChain[i]
             ELSE FirstMatchFrom(i + 1, u, h, d)

\* the results scrape can return for u, over the answers of the network
ScrapeResults(u) ==
    IF ~u.parse THEN {ParseFailure}
    ELSE UNION {LET s == FirstMatchFrom(1, u, h, d)
                IN  IF s = "panic" THEN {}
                    ELSE IF s = "none" THEN {NoMatch}
                    ELSE {ScrapeReturn(s, o) : o \in ExtractOutcomes(s)}
                : <<h, d>> \in HeadResponses \X DnsAnswers}

----------------------------------------------------------------------------
\* web::scrape_inner over the result cache.

\* time_to_idle and time_to_live of the result cache, in minutes
TimeToIdle == 10
TimeToLive == 100

Reqs == 1..MaxReqs

\* the value type of the cache is Option<ScrapeResult>
NoneValue == NoMatch
CacheValue(res) == IF res.kind = "none" THEN NoneValue ELSE res

NoOutcome == [tag |-> "unset", val |-> NoResult]
\* Result<Option<ScrapeResult>, Arc<anyhow::Error>> of try_get_with
TryGetOk(v) == [tag |-> "Ok", val |-> v]
TryGetErr(res) == [tag |-> "Err", val |-> res]
TryGetResult(res) ==
    IF res.kind = "err" THEN TryGetErr(res) ELSE TryGetOk(CacheValue(res))

Absent == [has |-> FALSE, val |-> NoResult, live |-> 0, idle |-> 0]

Min(a, b) == IF a < b THEN a ELSE b

\* an entry is expired once it was idle for time_to_idle or alive for
\* time_to_live
Expired(e) == e.idle >= TimeToIdle \/ e.live >= TimeToLive

\* a cache that takes a stored None for a missing entry
FreshSome(e) == e.has /\ ~Expired(e) /\ e.val.kind # "none"

\* the entry try_get_with may answer from
Fresh(e) == e.has /\ ~Expired(e)

\* a read that also renews the lifetime of the entry
TouchRenews(e) == [e EXCEPT !.idle = 0, !.live = 0]

\* a read of the entry
Touch(e) == [e EXCEPT !.idle = 0]

\* a cache that also keeps the outcome of a failed computation
StoreAlways(e, out) ==
    [has |-> TRUE, val |-> out.val, live |-> 0, idle |-> 0]

\* what the cache holds for the key after a computation ended with out
Store(e, out) ==
    IF out.tag = "Ok"
    THEN [has |-> TRUE, val |-> out.val, live |-> 0, idle |-> 0]
    ELSE e

\* a cache without coalescing: no call ever joins another
JoinableNone(k) == {}

\* a cache with one lock for all keys: a call joins whatever is in flight
JoinableAnyKey(k) == {r \in Reqs : rPc[r] = "lead"}

\* the calls that are evaluating the init future of the key
Joinable(k) == {r \in Reqs : rPc[r] = "lead" /\ rKey[r] = k}

InFlight(k) == Joinable(k) # {}

Leader(k) == CHOOSE r \in Joinable(k) : TRUE

RInitFor(keys) ==
    /\ rc = [k \in keys |-> Absent]
    /\ rPc = [r \in Reqs |-> "idle"]
    /\ rKey = [r \in Reqs |-> BadUrl]
    /\ rOut = [r \in Reqs |-> NoOutcome]
    /\ rVia = [r \in Reqs |-> "-"]
    /\ rLead = [r \in Reqs |-> 0]

\* a request reaches scrape_inner and calls try_get_with(url, scrape(url)):
\* answered from the entry, joined to the computation in flight, or the one
\* that polls its scrape future
Arrive(r, k) ==
    /\ rPc[r] = "idle"
    /\ k \in DOMAIN rc
    /\ rKey' = [rKey EXCEPT ![r] = k]
    /\ IF Fresh(rc[k])
       THEN /\ rc' = [rc EXCEPT ![k] = Touch(rc[k])]
            /\ rPc' = [rPc EXCEPT ![r] = "done"]
            /\ rOut' = [rOut EXCEPT ![r] = TryGetOk(rc[k].val)]
            /\ rVia' = [rVia EXCEPT ![r] = "hit"]
            /\ UNCHANGED rLead
       ELSE IF InFlight(k)
       THEN /\ rPc' = [rPc EXCEPT ![r] = "wait"]
            /\ rLead' = [rLead EXCEPT ![r] = Leader(k)]
            /\ UNCHANGED <<rc, rOut, rVia>>
       ELSE /\ rPc' = [rPc EXCEPT ![r] = "lead"]
            /\ UNCHANGED <<rc, rOut, rVia, rLead>>
    /\ UNCHANGED <<dvars, svars, xvars>>

\* the scrape future of the leading request resolves
Complete(r) ==
    /\ rPc[r] = "lead"
    /\ \E res \in ScrapeResults(rKey[r]) :
           /\ rOut' = [rOut EXCEPT ![r] = TryGetResult(res)]
           /\ rc' = [rc EXCEPT ![rKey[r]] = Store(rc[rKey[r]], TryGetResult(res))]
    /\ rPc' = [rPc EXCEPT ![r] = "done"]
    /\ rVia' = [rVia EXCEPT ![r] = "computed"]
    /\ UNCHANGED <<rKey, rLead>>
    /\ UNCHANGED <<dvars, svars, xvars>>

\* a request that joined a computation is handed its outcome
Wake(q) ==
    /\ rPc[q] = "wait"
    /\ rPc[rLead[q]] = "done"
    /\ rOut' = [rOut EXCEPT ![q] = rOut[rLead[q]]]
    /\ rPc' = [rPc EXCEPT ![q] = "done"]
    /\ rVia' = [rVia EXCEPT ![q] = "joined"]
    /\ UNCHANGED <<rc, rKey, rLead>>
    /\ UNCHANGED <<dvars, svars, xvars>>

\* the response is sent and the slot serves the next request
Respond(r) ==
    /\ rPc[r] = "done"
    /\ \A q \in Reqs : rLead[q] # r
    /\ rPc' = [rPc EXCEPT ![r] = "idle"]
    /\ rKey' = [rKey EXCEPT ![r] = BadUrl]
    /\ rOut' = [rOut EXCEPT ![r] = NoOutcome]
    /\ rVia' = [rVia EXCEPT ![r] = "-"]
    /\ rLead' = [rLead EXCEPT ![r] = 0]
    /\ UNCHANGED rc
    /\ UNCHANGED <<dvars, svars, xvars>>

\* the entry after step more minutes; the ages stop counting at the
\* durations, where the entry is expired for good
Age(e, step) ==
    IF e.has
    THEN [e EXCEPT !.live = Min(e.live + step, TimeToLive),
                   !.idle = Min(e.idle + step, TimeToIdle)]
    ELSE e

\* step minutes pass
Tick(step) ==
    /\ rc' = [k \in DOMAIN rc |-> Age(rc[k], step)]
    /\ rc' # rc
    /\ UNCHANGED <<rPc, rKey, rOut, rVia, rLead>>
    /\ UNCHANGED <<dvars, svars, xvars>>

\* requests for two keys; the clock moves by whole idle windows
RNext ==
    \/ \E r \in Reqs, k \in Catalog : Arrive(r, k)
    \/ \E r \in Reqs : Complete(r)
    \/ \E q \in Reqs : Wake(q)
    \/ \E r \in Reqs : Respond(r)
    \/ Tick(TimeToIdle)

\* requests for one key; the clock moves by TickStep
ENext ==
    \/ \E r \in Reqs, k \in Catalog : Arrive(r, k)
    \/ \E r \in Reqs : Complete(r)
    \/ \E q \in Reqs : Wake(q)
    \/ \E r \in Reqs : Respond(r)
    \/ Tick(TickStep)

\* the dispatcher variables when only the cache is exercised
DIdle ==
    /\ dUrl = BadUrl
    /\ head = HeadError
    /\ dns = "error"
    /\ checkCache = EmptyCheckCache
    /\ dPc = "idle"
    /\ dIdx = 0
    /\ dAns = Unasked
    /\ dPolled = {}
    /\ dSel = "none"
    /\ dResult = NoResult
    /\ dCalls = 0
    /\ dPrev = NoPrev
    /\ dData = NoData
    /\ dChain = <<>>
    /\ dResp = NoResp

\* the process is serving with one of the configurations
SServing(configs) ==
    /\ config \in configs
    /\ sPc = "serving"
    /\ sOp = NoOp

\* the cache variables when only the dispatcher is exercised
RIdle ==
    /\ rc = <<>>
    /\ rPc = <<>>
    /\ rKey = <<>>
    /\ rOut = <<>>
    /\ rVia = <<>>
    /\ rLead = <<>>

Init == RInitFor({TweetUrl, BadUrl}) /\ DIdle /\ SServing({DefaultConfig}) /\ XIdle

Next == RNext

Spec == Init /\ [][Next]_vars

EInit == RInitFor({TweetUrl}) /\ DIdle /\ SServing({DefaultConfig}) /\ XIdle

SpecExpiry == EInit /\ [][ENext]_vars

DNext ==
    \/ DCall
    \/ DClassify
    \/ DExtract
    \/ DReturn
    \/ DUnwind
    \/ DNetChange
    \/ DCheckExpire

DispatchInit == DInit /\ RIdle /\ SServing(DispatchConfigs) /\ XIdle

SpecDispatch == DispatchInit /\ [][DNext]_vars

\* startup, then the operations that read the configuration
SNext ==
    \/ SStart
    \/ \E u \in Catalog : SCamo(u)
    \/ SClient

\* the process boots with any configuration the environment can set
\* ("none": the variable is not set)
ServiceInit ==
    /\ SInitFor({Configuration(k, h, p, n) :
                     k \in {"none", "secret"},
                     h \in {"none", "https://camo.example", "camo host"},
                     p \in {"none", "socks5://proxy:1080", "ftp://proxy",
                            "//proxy"},
                     n \in {"none", "nitter.eu"}})
    /\ DIdle /\ RIdle /\ XIdle

SpecService == ServiceInit /\ [][SNext]_vars

\* the extraction routines on their own, no extraction begun
ExtractInit == XIdle /\ DIdle /\ RIdle /\ SServing(DispatchConfigs)

SpecTwitter == ExtractInit /\ [][TNext]_vars

\* the photo path and the camo rewrite run without a camo, with a camo that
\* signs, and with a camo host that is no URL
TumblrInit ==
    /\ XIdle /\ DIdle /\ RIdle
    /\ SServing({DefaultConfig,
                 Configuration("secret", "https://camo.example", "none", "none"),
                 Configuration("secret", "camo host", "none", "none")})

SpecTumblr == TumblrInit /\ [][UNext]_vars

SpecDeviantart == ExtractInit /\ [][ANext]_vars

SpecImages == ExtractInit /\ [][INext]_vars

----------------------------------------------------------------------------
\* Properties of the result cache (Spec, SpecExpiry).

\* request r enters try_get_with for key k in this step
Arrives(r, k) == rPc[r] = "idle" /\ rPc'[r] # "idle" /\ rKey'[r] = k

C2_HitServesStored ==
    [][\A r \in Reqs, k \in DOMAIN rc :
          (Arrives(r, k) /\ rc[k].has /\ ~Expired(rc[k])) =>
              /\ rPc'[r] = "done"
              /\ rOut'[r] = TryGetOk(rc[k].val)
              /\ rc'[k].val = rc[k].val
              /\ \A q \in Reqs : rPc'[q] = "lead" => rPc[q] = "lead"]_vars

\* a request was answered from a stored None
C2_Witness ==
    \E r \in Reqs :
        /\ rPc[r] = "done"
        /\ rVia[r] = "hit"
        /\ rOut[r] = TryGetOk(NoneValue)

C4_Expiry ==
    [][\A r \in Reqs, k \in DOMAIN rc :
          (Arrives(r, k) /\ rc[k].has) =>
              IF rc[k].idle < 10 /\ rc[k].live < 100
              THEN /\ rVia'[r] = "hit"
                   /\ rOut'[r] = TryGetOk(rc[k].val)
                   /\ rc'[k].idle = 0
                   /\ rc'[k].live = rc[k].live
              ELSE /\ rVia'[r] # "hit"
                   /\ rPc'[r] # "done"
                   /\ (~\E a \in Reqs : rPc[a] = "lead" /\ rKey[a] = k)
                          => rPc'[r] = "lead"]_vars

\* an entry that was read less than 10 minutes ago is 100 minutes old, and
\* a request is computing its key again
C4_Witness ==
    \E r \in Reqs :
        /\ rPc[r] = "lead"
        /\ rc[rKey[r]].has
        /\ rc[rKey[r]].live >= 100
        /\ rc[rKey[r]].idle < 10

\* C5: while a computation for key A is in flight, a request for another key
\* never waits on it: it waits only on a computation of its own key, its own
\* computation can complete, and a new request for another key can enter.
C5_KeysIndependent ==
    \A a \in Reqs :
        rPc[a] = "lead" =>
            \A b \in Reqs \ {a} :
                /\ (rPc[b] = "wait" /\ rKey[b] # rKey[a]) =>
                       (rLead[b] # a /\ rKey[rLead[b]] = rKey[b])
                /\ (rPc[b] = "lead" /\ rKey[b] # rKey[a]) =>
                       ENABLED Complete(b)
                /\ rPc[b] = "idle" =>
                       \A k \in DOMAIN rc \ {rKey[a]} : ENABLED Arrive(b, k)

\* the computation for one key is pending while a request for another key
\* that ran its own computation has its answer
C5_Witness ==
    \E a, b \in Reqs :
        /\ rPc[a] = "lead"
        /\ rPc[b] = "done"
        /\ rVia[b] = "computed"
        /\ rKey[b] # rKey[a]

----------------------------------------------------------------------------
\* Properties of the dispatcher (SpecDispatch).

\* the position of a backend in the fixed order of the dispatcher
DispatchRank(b) ==
    CASE b = "twitter" -> 1
      [] b = "deviantart" -> 2
      [] b = "tumblr" -> 3
      [] b = "raw" -> 4
      [] OTHER -> 5

C8_AllClassifiersRun ==
    dPc = "extract" => \A b \in Backends : dAns[b] # "unasked"

\* C9 (as claimed): the raw-asset backend is selected only when no
\* platform backend classifies the URL true.
C9_RawIsLastResort ==
    dSel = "raw" => \A b \in Backends \ {"raw"} : Wrapped(b) # "true"

\* the modules whose classify accepts the URL in the current call
Accepting ==
    {m \in Modules :
        IF m \in Backends THEN Wrapped(m) = "true"
        ELSE Classify(m, dUrl, head, dns) = "true"}

\* C10 (as claimed): each of the seven backends is dispatched to: a URL that
\* exactly one module's classify accepts is handed to that module.
C10_SevenDispatched ==
    \A m \in Modules :
        (dPc = "returned" /\ dUrl.parse /\ Accepting = {m}) => dSel = m

----------------------------------------------------------------------------
\* Properties of the HTTP boundary and of the extractions (SpecDispatch).

\* what the handler answers for the result the call is returning
Answer == Handler(scrape_inner(dResult, dData, dChain))

\* C11 (as claimed): a call for a URL that no backend's classify accepts
\* ends by returning None, and the boundary answers it with the body
\* {"errors":["URL invalid"]}.
C11_NoMatchIsNone ==
    (dPc \in {"returned", "panicked"} /\ dUrl.parse /\ Accepting = {}) =>
        /\ dPc = "returned"
        /\ dResult = NoMatch
        /\ Answer.body = [errors |-> <<"URL invalid">>]

\* C12 (as claimed): whatever the scrape of a request came to, the handler
\* answered with status 200 and Content-Type application/json.
C12_AlwaysOk200 ==
    dResp # NoResp =>
        /\ dResp.status = 200
        /\ dResp.ctype = "application/json"

\* the messages of the layers of a chain that are no transport layers: a
\* reqwest::Error and the sources beneath it are the transport
NonTransport(chain) ==
    LET kept == SelectSeq(chain, LAMBDA l : l.kind = "message")
    IN  [i \in 1..Len(kept) |-> kept[i].msg]

\* C13 (as claimed): the errors list of a failed scrape holds the messages
\* of the layers that are no transport errors, in the order of the chain,
\* and no message of a transport layer: for a chain that ends in a
\* transport timeout it is exactly the messages above the timeout.
C13_TransportFiltered ==
    (dPc = "returned" /\ dResult.kind = "err") =>
        from_err(dChain).errors = NonTransport(dChain)

\* C17 (as claimed): for a URL that only the raw-asset backend accepts,
\* scrape returns Ok with the input as source_url, no author and no
\* description, and the one image {url: input, camo_url: camouflage(input)}.
C17_RawResult ==
    (dPc = "returned" /\ dUrl.parse /\ Accepting = {"raw"}) =>
        /\ dSel = "raw"
        /\ dResult.kind = "ok"
        /\ dData.source_url = Some(dUrl)
        /\ dData.author_name = None
        /\ dData.description = None
        /\ Len(dData.images) = 1
        /\ dData.images[1].url = dUrl
        /\ Ok(dData.images[1].camo_url) = camo_url(config, dUrl)

\* C18 (as claimed): every post the mirror-instance backend extracts has
\* the primary platform's URL of that post as its source_url, never a URL
\* on a mirror host.
C18_CanonicalSource ==
    (dPc = "returned" /\ dSel = "nitter" /\ dResult.kind = "ok") =>
        /\ dData.source_url = Some(OpenInTwitter(dUrl))
        /\ dData.source_url[1].host \notin NITTER_INSTANCES

\* C19 (as claimed): no failure of an extraction or of the probe before it
\* ends the task of the request in a panic.
C19_NoPanic == dPc # "panicked"

\* the failures the extraction of the selected backend can return
ExtractFailures ==
    {Extract(dSel, config, dUrl, up).chain :
        up \in {q \in Upstream : Extract(dSel, config, dUrl, q).o = "err"}}

\* C20: a failure the selected backend's extraction returned leaves scrape
\* as that failure under one more, outermost layer: the context that names
\* the selected backend and no other; it is the first entry of the errors
\* the caller is answered with.
C20_BackendContext ==
    (dPc = "returned" /\ dResult.kind = "err" /\ dSel # "none") =>
        /\ Len(dChain) >= 2
        /\ dChain[1] = Msg(ParserContext(dSel))
        /\ \A b \in Backends \ {dSel} : dChain[1].msg # ParserContext(b)
        /\ Tail(dChain) \in ExtractFailures
        /\ Answer.body.errors[1] = ParserContext(dSel)

\* the blog backend's request timed out and scrape is returning the failure
C20_Witness ==
    /\ dPc = "returned"
    /\ dSel = "tumblr"
    /\ dResult.kind = "err"
    /\ dChain = Context("Tumblr parser failed",
                        Context("request to tumblr failed", TimedOut))

----------------------------------------------------------------------------
\* Properties of the configuration (SpecService).

\* C14: with the signing key absent or the proxy host absent, camo_url
\* succeeds and returns the URL it was given, for every URL.
C14_IdentityOptOut ==
    (sOp.op = "camo_url"
         /\ (config.camo_key = "none" \/ config.camo_host = "none")) =>
        sOp.out = Ok(sOp.url)

\* camo_url was called with a key and without a host
C14_Witness ==
    /\ sOp.op = "camo_url"
    /\ config.camo_key # "none"
    /\ config.camo_host = "none"
    /\ sOp.out = Ok(sOp.url)

\* a configuration whose camo and proxy settings can be used
WellFormed(cfg) ==
    /\ (cfg.camo_key # "none" /\ cfg.camo_host # "none") =>
           CamoConfig_new(hex_encode(cfg.camo_key), cfg.camo_host).tag = "Ok"
    /\ cfg.proxy_url # "none" =>
           /\ ParseConfigUrl(cfg.proxy_url).tag = "Ok"
           /\ ParseConfigUrl(cfg.proxy_url).val.scheme \in ProxySchemes

\* C16 (as claimed): a malformed camo key or host or a proxy URL of another
\* scheme stops the process at startup, and no operation run while serving
\* returns a configuration error.
C16_ConfigErrorsAtStartup ==
    /\ sPc = "serving" => WellFormed(config)
    /\ sOp.out.tag = "Ok"

----------------------------------------------------------------------------
\* Properties of the twitter extraction (SpecTwitter).

\* the place of a request in the order of the awaits
LegRank(leg) == CHOOSE i \in 1..Len(Legs) : Legs[i] = leg

\* the key of a request of the running extraction
LegKey(leg) ==
    CASE leg = "page" -> PageKey(tPost)
      [] leg = "script" -> ScriptKey
      [] leg = "activation" -> ActivationKey
      [] OTHER -> ApiKey(tPost, tGt)

\* this step sends the request of leg to the network
Sends(leg) == tNet' = Append(tNet, leg)

\* C21 (as claimed): each of the four requests is cached under its own key:
\* no request goes to the network while the answer to the request of the same
\* key is within the cache lifetime, so the activation is not repeated by the
\* next extraction.
C21_LegsCached ==
    [][\A i \in 1..Len(Legs) :
           Sends(Legs[i]) => LegKey(Legs[i]) \notin tServed]_vars

\* C22 (as claimed): the requests go out in the order page, script,
\* activation, API, each only from the position the previous one led to; a
\* request that fails ends the extraction with an error, and no request
\* follows it.
C22_LegsInOrder ==
    /\ [](\A i, j \in 1..Len(tNet) :
              i < j => LegRank(tNet[i]) < LegRank(tNet[j]))
    /\ [][/\ \A i \in 1..Len(Legs) : Sends(Legs[i]) => tPc = Legs[i]
          /\ (tPc \in {"page", "script", "activation"} /\ tPc' = "done") =>
                 tOut'.o = "err"
          /\ (tPc = "api" /\ tOut'.o \notin {"ok", "none"}) => tOut'.o = "err"
          /\ tPc = "done" => tNet' \in {tNet, <<>>}]_vars

\* the media entries of post p that get a camo URL under cfg
Survivors(cfg, p) ==
    {i \in 1..Len(TweetMedia(p)) : camo_url(cfg, TweetMedia(p)[i]).tag = "Ok"}

\* C27: twitter_scrape never returns Ok with an empty images list: a post
\* without media entries, or one whose entries are all dropped, gives None.
C27_NeverEmptyImages ==
    tPc = "done" =>
        /\ tOut.o = "ok" => tOut.data.images # <<>>
        /\ tOut.o \in {"ok", "none"} =>
               (tOut.o = "none" <=> Survivors(config, tPost) = {})

\* a post with media entries of which none got a camo URL came back as None
C27_Witness ==
    /\ tPc = "done"
    /\ tOut = ExtractedNone
    /\ TweetMedia(tPost) # <<>>
    /\ "api" \in {tNet[i] : i \in 1..Len(tNet)}

----------------------------------------------------------------------------
\* Properties of the photo path of tumblr (SpecTumblr).

\* the probes of the last upsize that answered 200
Answered200 == {i \in 1..Len(uProbed) : uProbed[i].status = "200"}

\* upsize has returned for a photo whose original is a string
Upsized == uPc = "photo" /\ uProbed # <<>>

\* C23: upsize probes the sizes in the order 1280, 540, 500, 400, 250, 100,
\* 75 and returns the candidate of the largest size whose probe answered
\* 200; it returns nothing only when no size answered 200.
C23_LargestAnswering ==
    /\ \A i \in 1..Len(uProbed) :
           uProbed[i].size = <<1280, 540, 500, 400, 250, 100, 75>>[i]
    /\ Upsized =>
           LET orig == uPhotos[1][uIdx - 1].original_size
           IN  IF Answered200 = {} THEN uRet = None
               ELSE \E i \in Answered200 :
                        /\ \A j \in Answered200 :
                               uProbed[i].size >= uProbed[j].size
                        /\ uRet = Some(Candidate(orig, uProbed[i].size))
    /\ (uPc = "photo" /\ uIdx > 1 /\ uRet = None) => Answered200 = {}

\* the size 1280 answered 404, the sizes 540 and 500 answered 200, and
\* upsize returned the candidate of 540
C23_Witness ==
    /\ Upsized
    /\ uProbed[1].status = "404"
    /\ uProbed[2].status = "200"
    /\ uProbed[3].status = "200"
    /\ uRet = Some(Candidate(SizedOriginal, 540))
    /\ uRet # Some(Candidate(SizedOriginal, 500))

\* C28: upsize does not stop at the first size that answers 200: all seven
\* sizes are probed for every photo, and a transport failure of any probe,
\* also of a smaller size after a larger one answered 200, fails the whole
\* extraction.
C28_AllTiersProbed ==
    /\ Upsized => Len(uProbed) = 7
    /\ (uPc = "probe" /\ Answered200 # {} /\ Len(uProbed) < 7) => ENABLED UProbe
    /\ (\E i \in 1..Len(uProbed) : uProbed[i].status = "error") =>
           /\ uPc = "done"
           /\ uOut.o = "err"
           /\ uOut.data = NoData

\* the first photo was upsized; for the second the size 1280 answered 200
\* and the probe of the size 75 failed: the extraction failed
C28_Witness ==
    /\ uPc = "done"
    /\ uOut.o = "err"
    /\ uImages # <<>>
    /\ Len(uProbed) = 7
    /\ uProbed[1].status = "200"
    /\ uProbed[7].status = "error"

----------------------------------------------------------------------------
\* Properties of the hi-res steps of deviantart (SpecDeviantart).

\* a is the beginning of b
IsPrefix(a, b) == Len(a) <= Len(b) /\ SubSeq(b, 1, Len(a)) = a

\* C24: the three hi-res steps run in the order file-name rewrite,
\* intermediary HEAD probe, legacy base36 guess, and each only appends: the
\* images a step is given are the beginning of the images it leaves, the
\* base image stays first, and nothing is removed, replaced or merged.
C24_StepsOnlyAppend ==
    /\ Len(aLog) <= 3
    /\ \A i \in 1..Len(aLog) :
           /\ aLog[i].step = <<"new_hires", "intermediary", "old_hires">>[i]
           /\ aLog[i].images # <<>>
           /\ aLog[i].images[1].url = aPage.image
           /\ i > 1 => IsPrefix(aLog[i - 1].images, aLog[i].images)
    /\ aImages # <<>> =>
           /\ aImages[1].url = aPage.image
           /\ aLog # <<>> => IsPrefix(aLog[Len(aLog)].images, aImages)
    /\ (aPc = "done" /\ aOut.o = "ok") =>
           /\ Len(aLog) = 3
           /\ aOut.data.images = aLog[3].images

\* a JPEG rendition on the CDN came back with its q_100 variant, the two
\* intermediary variants and the legacy location behind it
C24_Witness ==
    /\ aPc = "done"
    /\ aOut.o = "ok"
    /\ aPage.image.fill = "jpg"
    /\ Len(aOut.data.images) = 5
    /\ aOut.data.images[1].url = aPage.image
    /\ aOut.data.images[5].url = LocationUrl

\* C29: a failure inside any hi-res step (a failed intermediary HEAD
\* request, no serial captured, a failed legacy request) fails the whole
\* extraction: neither the base image nor the variants found are returned.
C29_StepFailureFailsAll ==
    (/\ aPc = "done"
     /\ \/ \E i \in 1..Len(aNet) : aNet[i].answer = "error"
        \/ aPage.serial \in {NoSerial, TooLong}) =>
        /\ aOut.o = "err"
        /\ aOut.data.images = <<>>

\* the rewrite and an intermediary probe had found variants when the second
\* HEAD request failed
C29_Witness ==
    /\ aPc = "done"
    /\ aOut.o = "err"
    /\ Len(aImages) = 3
    /\ Len(aNet) = 2
    /\ aNet[1].answer = "200"
    /\ aNet[2].answer = "error"

----------------------------------------------------------------------------
\* Properties of the camo rewrite of the images (SpecImages).

\* the media whose camo URL the configuration can build, in their order
Rewritable == SelectSeq(iMedia, LAMBDA m : camo_url(config, m).tag = "Ok")

\* C30: in the photo path of tumblr and in twitter an image whose camo
\* rewrite fails is left out and no error is passed on: the extraction ends
\* with the other images in their order.
C30_CamoFailureOmitted ==
    iPc = "built" =>
        /\ iOut.res.o \in {"ok", "none"}
        /\ iOut.res.chain = <<>>
        /\ LET images == iOut.res.data.images
           IN  /\ Len(images) = Len(Rewritable)
               /\ \A i \in 1..Len(images) :
                      /\ images[i].url = Rewritable[i]
                      /\ images[i].camo_url = camo_url(config, Rewritable[i]).val
        /\ (iOut.by = "tumblr" \/ Rewritable # <<>>) => iOut.res.o = "ok"

\* of three photos the second got no camo URL: the result has the first
\* and the third
C30_Witness ==
    /\ iPc = "built"
    /\ iOut.by = "tumblr"
    /\ iMedia = <<AssetUrl, DataUrl, SecondAssetUrl>>
    /\ camo_url(config, DataUrl).tag = "Err"
    /\ iOut.res.o = "ok"
    /\ Len(iOut.res.data.images) = 2
    /\ iOut.res.data.images[2].url = SecondAssetUrl

----------------------------------------------------------------------------
\* Properties of the results of the extraction (SpecDispatch).

\* the extraction of b gives None for u whatever the site answers
AlwaysNone(b, cfg, u) == \A up \in Upstream : Extract(b, cfg, u, up).o = "none"

\* C25: when the extraction of the selected backend returns None, scrape
\* returns None: no error is raised and no other backend is tried.
C25_NoneIsFinal ==
    /\ (dPc = "returned" /\ dSel # "none" /\ dResult.kind = "none") =>
           /\ dResult.by = dSel
           /\ dChain = <<>>
           /\ \A b \in Backends :
                  DispatchRank(b) > DispatchRank(dSel) =>
                      dAns[b] = "unasked" /\ b \notin dPolled
    /\ (dPc = "returned" /\ dSel # "none"
            /\ AlwaysNone(dSel, config, dUrl)) =>
           dResult = [kind |-> "none", by |-> dSel, ctx |-> ""]

\* the blog backend was selected for a URL the raw backend would accept as
\* well, found no post, and scrape is returning None
C25_Witness ==
    /\ dPc = "returned"
    /\ dSel = "tumblr"
    /\ dResult.kind = "none"
    /\ is_raw(dUrl, head) = "true"
    /\ dAns["raw"] = "unasked"

\* C26 (as claimed): every layer whose direct cause is a transport error is
\* left out of the errors list: a context message wrapped directly around
\* a transport failure is not shown to the caller.
C26_CauseFiltered ==
    (dPc = "returned" /\ dResult.kind = "err") =>
        \A i \in 1..(Len(dChain) - 1) :
            dChain[i + 1].kind = "reqwest" =>
                \A j \in 1..Len(Answer.body.errors) :
                    Answer.body.errors[j] # dChain[i].msg

\* the layers of the chain that are no reqwest::Error
KeptLayers == {i \in 1..Len(dChain) : dChain[i].kind # "reqwest"}

\* C26 (amended): exactly the layers that are themselves a reqwest::Error
\* are left out of the errors list; every other layer is shown, in the order
\* of the chain, also a context message wrapped directly around a transport
\* failure.
C26_OnlyReqwestDropped ==
    (dPc = "returned" /\ dResult.kind = "err") =>
        /\ Len(Answer.body.errors) = Cardinality(KeptLayers)
        /\ \A i \in KeptLayers :
               Answer.body.errors[Cardinality({j \in KeptLayers : j <= i})]
                   = dChain[i].msg

\* the request of the blog backend timed out: the context around the
\* reqwest::Error is in the errors list
C26_Witness ==
    /\ dPc = "returned"
    /\ dResult.kind = "err"
    /\ dChain = Context("Tumblr parser failed",
                        Context("request to tumblr failed", TimedOut))
    /\ Answer.body.errors[2] = "request to tumblr failed"

====
